---- MODULE Spec2Model ----
(***************************************************************************)
(* A model of the komorebi-dex constant-product liquidity pool             *)
(* (src/src/liquidity_pool.rs, blueprint `Pool`).                          *)
(*                                                                         *)
(* Amounts are Scrypto `Decimal`s: signed fixed-point numbers kept as an   *)
(* integer count of the smallest unit.  `*` and `/` on Decimal truncate    *)
(* toward zero and `/` panics on a zero divisor.  The ledger's Decimal has *)
(* 10^18 smallest units in one whole token; the model keeps the same       *)
(* arithmetic with ONE smallest units in one whole token.  Every amount    *)
(* below is a count of smallest units.                                     *)
(*                                                                         *)
(* A panic anywhere in a method aborts the transaction: the ledger rolls   *)
(* every change back, so a failed call leaves vaults and supply as they    *)
(* were.  Each method is an operator returning a result record whose `ok`  *)
(* field tells whether the call committed.                                 *)
(***************************************************************************)
EXTENDS Integers, FiniteSets, Sequences, TLC

VARIABLES
    vaults,        \* Pool.vaults: resource address -> amount held; <<>> before instantiate_pool
    fee_to_pool,   \* Pool.fee_to_pool, a Decimal in [0, 100]
    total_supply,  \* total supply of the pool's tracking token (its resource manager)
    last,          \* the last call: the method, whether it committed, what it returned
    calls          \* the number of calls committed so far

vars == <<vaults, fee_to_pool, total_supply, last, calls>>

---------------------------------------------------------------------------
(* Bounds of the model *)

\* smallest units in one whole token (the ledger's Decimal has 10^18)
ONE == 4
\* largest amount (in smallest units) of a bucket passed to a call
MaxAmount == 2
\* calls that would take a vault above MaxReserve smallest units are not made
MaxReserve == 5
\* calls that would take the tracking supply above MaxSupplyTokens tokens are not made
MaxSupplyTokens == 200
\* no call is made after MaxCalls committed calls
MaxCalls == 3
\* largest amount (in smallest units) of a bucket passed to a call of SpecLarge
MaxDeposit == 5

---------------------------------------------------------------------------
(* Decimal arithmetic *)

dec(n) == n * ONE

Abs(a) == IF a < 0 THEN -a ELSE a

\* integer division truncating toward zero, b # 0
TruncDiv(a, b) ==
    IF (a >= 0) = (b > 0) THEN Abs(a) \div Abs(b) ELSE -(Abs(a) \div Abs(b))

\* Decimal * Decimal
DecMul(a, b) == TruncDiv(a * b, ONE)

\* Decimal / Decimal, b # 0 (b = 0 panics: callers test it first)
DecDiv(a, b) == TruncDiv(a * ONE, b)

---------------------------------------------------------------------------
(* Resources *)

\* 1 and 2 are fungible tokens, 3 is a non-fungible resource
Resources == {1, 2, 3}

is_fungible(address) == address # 3

\* the resource created by instantiate_pool for the pool's tracking tokens
tracking_token_address == 4

\* a bucket's resource address and amount
Bucket(address, amount) == [address |-> address, amount |-> amount]

\* Bucket::take / Vault::take: the amount must be non-negative and available
can_take(have, amount) == amount >= 0 /\ amount <= have

\* utils::sort_buckets: the two buckets in the order of their addresses
sort_buckets(b1, b2) == IF b1.address <= b2.address THEN <<b1, b2>> ELSE <<b2, b1>>

---------------------------------------------------------------------------
(* Results *)

Res(ok, v, s, o1, o2, m) ==
    [ok |-> ok, vaults |-> v, supply |-> s, out1 |-> o1, out2 |-> o2, minted |-> m]

\* a panic: nothing changes, nothing is returned
Panic(v, s) == Res(FALSE, v, s, 0, 0, 0)

Val(x) == [ok |-> TRUE, val |-> x]
NoVal == [ok |-> FALSE, val |-> 0]

---------------------------------------------------------------------------
(* The pool's methods *)

\* instantiate_pool without the test of the fee
instantiate_pool_any_fee(token1, token2, fee) ==
    IF /\ token1.address # token2.address
       /\ is_fungible(token1.address)
       /\ is_fungible(token2.address)
       /\ token1.amount # 0 /\ token2.amount # 0
    THEN LET b == sort_buckets(token1, token2)
         IN  Res(TRUE,
                 (b[1].address :> b[1].amount) @@ (b[2].address :> b[2].amount),
                 dec(100), 0, 0, dec(100))
    ELSE Panic(<<>>, 0)

\* instantiate_pool minting as many tracking tokens as the first bucket holds
instantiate_pool_minting_deposit(token1, token2, fee) ==
    IF /\ token1.address # token2.address
       /\ is_fungible(token1.address)
       /\ is_fungible(token2.address)
       /\ token1.amount # 0 /\ token2.amount # 0
       /\ fee >= 0 /\ fee <= dec(100)
    THEN LET b == sort_buckets(token1, token2)
         IN  Res(TRUE,
                 (b[1].address :> b[1].amount) @@ (b[2].address :> b[2].amount),
                 b[1].amount, 0, 0, b[1].amount)
    ELSE Panic(<<>>, 0)

instantiate_pool(token1, token2, fee) ==
    IF /\ token1.address # token2.address
       /\ is_fungible(token1.address)
       /\ is_fungible(token2.address)
       /\ token1.amount # 0 /\ token2.amount # 0
       /\ fee >= 0 /\ fee <= dec(100)
    THEN LET b == sort_buckets(token1, token2)
         IN  Res(TRUE,
                 (b[1].address :> b[1].amount) @@ (b[2].address :> b[2].amount),
                 dec(100), 0, 0, dec(100))
    ELSE Panic(<<>>, 0)

belongs_to_pool(v, address) == address \in DOMAIN v

\* requires belongs_to_pool(v, address)
other_resource_address(v, address) == CHOOSE a \in DOMAIN v : a # address

\* other_resource_address as a call: it panics for a resource that is not the pool's
other_resource_address_call(v, address) ==
    IF belongs_to_pool(v, address) THEN Val(other_resource_address(v, address)) ELSE NoVal

\* Pool::addresses: the keys of the vaults HashMap in the order of its iteration,
\* which is not fixed: the pool's two addresses in either order
addresses(v) == {keys \in (DOMAIN v) \X (DOMAIN v) : keys[1] # keys[2]}

\* the product is the same for either order of the addresses
k(v) == LET keys == CHOOSE o \in addresses(v) : TRUE
        IN  DecMul(v[keys[1]], v[keys[2]])

\* calculate_output_amount dividing by x alone, the input left out of the divisor
calculate_output_amount_divisor_x(v, fee, input_resource_address, input_amount) ==
    IF ~belongs_to_pool(v, input_resource_address) THEN NoVal
    ELSE LET x  == v[input_resource_address]
             y  == v[other_resource_address(v, input_resource_address)]
             dx == input_amount
             r  == DecDiv(dec(100) - fee, dec(100))
         IN  IF x = 0 THEN NoVal
             ELSE Val(DecDiv(DecMul(DecMul(dx, r), y), x))

\* calculate_output_amount with the fee left out (r = 1)
calculate_output_amount_no_fee(v, fee, input_resource_address, input_amount) ==
    IF ~belongs_to_pool(v, input_resource_address) THEN NoVal
    ELSE LET x  == v[input_resource_address]
             y  == v[other_resource_address(v, input_resource_address)]
             dx == input_amount
             d  == x + dx
         IN  IF d = 0 THEN NoVal
             ELSE Val(DecDiv(DecMul(dx, y), d))

\* calculate_output_amount with the quotient rounded up, one smallest unit more
calculate_output_amount_rounded_up(v, fee, input_resource_address, input_amount) ==
    IF ~belongs_to_pool(v, input_resource_address) THEN NoVal
    ELSE LET x  == v[input_resource_address]
             y  == v[other_resource_address(v, input_resource_address)]
             dx == input_amount
             r  == DecDiv(dec(100) - fee, dec(100))
             d  == x + DecMul(r, dx)
         IN  IF d = 0 THEN NoVal
             ELSE Val(DecDiv(DecMul(DecMul(dx, r), y), d) + 1)

calculate_output_amount(v, fee, input_resource_address, input_amount) ==
    IF ~belongs_to_pool(v, input_resource_address) THEN NoVal
    ELSE LET x  == v[input_resource_address]
             y  == v[other_resource_address(v, input_resource_address)]
             dx == input_amount
             r  == DecDiv(dec(100) - fee, dec(100))
             d  == x + DecMul(r, dx)
         IN  IF d = 0 THEN NoVal
             ELSE Val(DecDiv(DecMul(DecMul(dx, r), y), d))

calculate_input_amount(v, fee, output_resource_address, output_amount) ==
    IF ~belongs_to_pool(v, output_resource_address) THEN NoVal
    ELSE LET x  == v[other_resource_address(v, output_resource_address)]
             y  == v[output_resource_address]
             dy == output_amount
             r  == DecDiv(dec(100) - fee, dec(100))
             d  == DecMul(r, y - dy)
         IN  IF d = 0 THEN NoVal
             ELSE Val(DecDiv(DecMul(dy, x), d))

\* [ok, vaults]
deposit(v, address, amount) ==
    IF belongs_to_pool(v, address)
    THEN [ok |-> TRUE, vaults |-> [v EXCEPT ![address] = @ + amount]]
    ELSE [ok |-> FALSE, vaults |-> v]

\* withdraw without the test that the liquidity is there
withdraw_unchecked(v, address, amount) ==
    IF belongs_to_pool(v, address)
    THEN [ok |-> TRUE, vaults |-> [v EXCEPT ![address] = @ - amount]]
    ELSE [ok |-> FALSE, vaults |-> v]

\* withdraw paying out what the vault holds when less than the amount is there
withdraw_clamped(v, address, amount) ==
    IF belongs_to_pool(v, address) /\ amount >= 0
    THEN [ok |-> TRUE,
          vaults |-> [v EXCEPT ![address] = IF @ >= amount THEN @ - amount ELSE 0]]
    ELSE [ok |-> FALSE, vaults |-> v]

\* [ok, vaults]
withdraw(v, address, amount) ==
    IF /\ belongs_to_pool(v, address)
       /\ v[address] >= amount
       /\ can_take(v[address], amount)
    THEN [ok |-> TRUE, vaults |-> [v EXCEPT ![address] = @ - amount]]
    ELSE [ok |-> FALSE, vaults |-> v]

\* (amount1, amount2) of add_liquidity: what is deposited of bucket1 and bucket2
liquidity_amounts(m, n, dm, dn) ==
    IF (m = 0 \/ n = 0) \/ (DecMul(m, dn) = DecMul(n, dm)) THEN <<dm, dn>>
    ELSE IF DecDiv(m, n) < DecDiv(dm, dn) THEN <<DecDiv(DecMul(dn, m), n), dn>>
    ELSE <<dm, DecDiv(DecMul(dm, n), m)>>

\* add_liquidity minting against the reserve after the deposit
add_liquidity_post_deposit_reserve(v, s, token1, token2) ==
    IF ~(/\ belongs_to_pool(v, token1.address)
         /\ belongs_to_pool(v, token2.address)
         /\ token1.amount # 0 /\ token2.amount # 0)
    THEN Panic(v, s)
    ELSE LET b  == sort_buckets(token1, token2)
             dm == b[1].amount
             dn == b[2].amount
             m  == v[b[1].address]
             n  == v[b[2].address]
             a  == liquidity_amounts(m, n, dm, dn)
         IN  IF ~(can_take(dm, a[1]) /\ can_take(dn, a[2])) THEN Panic(v, s)
             ELSE LET v1 == deposit(v, b[1].address, a[1]).vaults
                      v2 == deposit(v1, b[2].address, a[2]).vaults
                  IN  IF s = 0 THEN Res(TRUE, v2, s + dec(100), dm - a[1], dn - a[2], dec(100))
                      ELSE IF v2[b[1].address] = 0 THEN Panic(v, s)
                      ELSE LET tracking_amount == DecDiv(DecMul(a[1], s), v2[b[1].address])
                           IN  Res(TRUE, v2, s + tracking_amount,
                                   dm - a[1], dn - a[2], tracking_amount)

\* out1, out2: what is left of bucket1 and bucket2 (sorted); minted: tracking tokens
add_liquidity(v, s, token1, token2) ==
    IF ~(/\ belongs_to_pool(v, token1.address)
         /\ belongs_to_pool(v, token2.address)
         /\ token1.amount # 0 /\ token2.amount # 0)
    THEN Panic(v, s)
    ELSE LET b  == sort_buckets(token1, token2)
             dm == b[1].amount
             dn == b[2].amount
             m  == v[b[1].address]
             n  == v[b[2].address]
             a  == liquidity_amounts(m, n, dm, dn)
         IN  IF ~(can_take(dm, a[1]) /\ can_take(dn, a[2])) THEN Panic(v, s)
             ELSE LET v1 == deposit(v, b[1].address, a[1]).vaults
                      v2 == deposit(v1, b[2].address, a[2]).vaults
                  IN  IF s = 0 THEN Res(TRUE, v2, s + dec(100), dm - a[1], dn - a[2], dec(100))
                      ELSE IF m = 0 THEN Panic(v, s)
                      ELSE LET tracking_amount == DecDiv(DecMul(a[1], s), m)
                           IN  Res(TRUE, v2, s + tracking_amount,
                                   dm - a[1], dn - a[2], tracking_amount)

\* remove_liquidity taking the percentage of the supply left after the burn
remove_liquidity_after_burn(v, s, tracking_tokens, keys) ==
    IF tracking_tokens.address # tracking_token_address
          \/ s - tracking_tokens.amount = 0 THEN Panic(v, s)
    ELSE LET percentage == DecDiv(tracking_tokens.amount, s - tracking_tokens.amount)
             w1 == withdraw(v, keys[1], DecMul(v[keys[1]], percentage))
             w2 == withdraw(w1.vaults, keys[2], DecMul(v[keys[2]], percentage))
         IN  IF w1.ok /\ w2.ok
             THEN Res(TRUE, w2.vaults, s - tracking_tokens.amount,
                      DecMul(v[keys[1]], percentage), DecMul(v[keys[2]], percentage), 0)
             ELSE Panic(v, s)

\* remove_liquidity without the test of the bucket's resource
remove_liquidity_any_token(v, s, tracking_tokens, keys) ==
    IF s = 0 THEN Panic(v, s)
    ELSE LET percentage == DecDiv(tracking_tokens.amount, s)
             w1 == withdraw(v, keys[1], DecMul(v[keys[1]], percentage))
             w2 == withdraw(w1.vaults, keys[2], DecMul(v[keys[2]], percentage))
         IN  IF w1.ok /\ w2.ok
             THEN Res(TRUE, w2.vaults, s - tracking_tokens.amount,
                      DecMul(v[keys[1]], percentage), DecMul(v[keys[2]], percentage), 0)
             ELSE Panic(v, s)

\* keys: what self.addresses() gives in this call, one of addresses(v).
\* out1, out2: what is withdrawn of keys[1] and of keys[2], in that order
remove_liquidity(v, s, tracking_tokens, keys) ==
    IF tracking_tokens.address # tracking_token_address \/ s = 0 THEN Panic(v, s)
    ELSE LET percentage == DecDiv(tracking_tokens.amount, s)
             w1 == withdraw(v, keys[1], DecMul(v[keys[1]], percentage))
             w2 == withdraw(w1.vaults, keys[2], DecMul(v[keys[2]], percentage))
         IN  IF w1.ok /\ w2.ok
             THEN Res(TRUE, w2.vaults, s - tracking_tokens.amount,
                      DecMul(v[keys[1]], percentage), DecMul(v[keys[2]], percentage), 0)
             ELSE Panic(v, s)

\* out1: the output tokens
swap(v, fee, s, tokens) ==
    IF ~belongs_to_pool(v, tokens.address) THEN Panic(v, s)
    ELSE LET output_amount == calculate_output_amount(v, fee, tokens.address, tokens.amount)
             other == other_resource_address(v, tokens.address)
         IN  IF ~output_amount.ok THEN Panic(v, s)
             ELSE LET w == withdraw(v, other, output_amount.val)
                  IN  IF ~w.ok THEN Panic(v, s)
                      ELSE Res(TRUE, deposit(w.vaults, tokens.address, tokens.amount).vaults,
                               s, output_amount.val, 0, 0)

\* swap_exact_tokens_for_tokens without the test of min_amount_out
swap_exact_tokens_for_tokens_unchecked(v, fee, s, tokens, min_amount_out) ==
    IF ~belongs_to_pool(v, tokens.address) THEN Panic(v, s)
    ELSE swap(v, fee, s, tokens)

swap_exact_tokens_for_tokens(v, fee, s, tokens, min_amount_out) ==
    IF ~belongs_to_pool(v, tokens.address) THEN Panic(v, s)
    ELSE LET output_tokens == swap(v, fee, s, tokens)
         IN  IF output_tokens.ok /\ output_tokens.out1 >= min_amount_out
             THEN output_tokens
             ELSE Panic(v, s)

\* swap_tokens_for_exact_tokens depositing the whole bucket, nothing left of it
swap_tokens_for_exact_tokens_keeps_change(v, fee, s, tokens, output_amount) ==
    IF ~belongs_to_pool(v, tokens.address) THEN Panic(v, s)
    ELSE LET other == other_resource_address(v, tokens.address)
             input_required == calculate_input_amount(v, fee, other, output_amount)
         IN  IF ~input_required.ok THEN Panic(v, s)
             ELSE IF ~(tokens.amount >= input_required.val) THEN Panic(v, s)
             ELSE IF ~can_take(tokens.amount, input_required.val) THEN Panic(v, s)
             ELSE LET d == deposit(v, tokens.address, tokens.amount)
                      w == withdraw(d.vaults, other, output_amount)
                  IN  IF ~w.ok THEN Panic(v, s)
                      ELSE Res(TRUE, w.vaults, s, output_amount, 0, 0)

\* out1: the output tokens, out2: what is left of the input tokens
swap_tokens_for_exact_tokens(v, fee, s, tokens, output_amount) ==
    IF ~belongs_to_pool(v, tokens.address) THEN Panic(v, s)
    ELSE LET other == other_resource_address(v, tokens.address)
             input_required == calculate_input_amount(v, fee, other, output_amount)
         IN  IF ~input_required.ok THEN Panic(v, s)
             ELSE IF ~(tokens.amount >= input_required.val) THEN Panic(v, s)
             ELSE IF ~can_take(tokens.amount, input_required.val) THEN Panic(v, s)
             ELSE LET d == deposit(v, tokens.address, input_required.val)
                      w == withdraw(d.vaults, other, output_amount)
                  IN  IF ~w.ok THEN Panic(v, s)
                      ELSE Res(TRUE, w.vaults, s, output_amount,
                               tokens.amount - input_required.val, 0)

---------------------------------------------------------------------------
(* The state machine *)

Created == DOMAIN vaults # {}

Amounts == 0 .. MaxAmount

\* fee_to_pool values offered to instantiate_pool: 0, 1, 100 and two out of range
Fees == {-1, 0, dec(1), dec(100), dec(100) + 1}

\* the buckets a caller can pass
Buckets == {Bucket(a, x) : a \in Resources, x \in Amounts}

\* the output_amount values offered to swap_tokens_for_exact_tokens
OutputAmounts == (-1) .. (MaxReserve + 1)

\* what is remembered of a call: the method, whether it committed, what it returned
Call(op, res) ==
    [op |-> op, ok |-> res.ok, out1 |-> res.out1, out2 |-> res.out2, minted |-> res.minted]

InBounds(res) ==
    /\ \A a \in DOMAIN res.vaults : res.vaults[a] <= MaxReserve
    /\ res.supply <= dec(MaxSupplyTokens)

\* the state after the call: its result if it committed, the state before if it panicked
Record(op, res) ==
    /\ calls' = IF res.ok THEN calls + 1 ELSE calls
    /\ vaults' = res.vaults
    /\ total_supply' = res.supply
    /\ last' = Call(op, res)

\* a call that stays within the bounds of the model
Commit(op, res) == InBounds(res) /\ Record(op, res)

Init ==
    /\ vaults = <<>>
    /\ fee_to_pool = 0
    /\ total_supply = 0
    /\ calls = 0
    /\ last = [op |-> "none", ok |-> TRUE, out1 |-> 0, out2 |-> 0, minted |-> 0]

InstantiatePool ==
    /\ ~Created
    /\ calls < MaxCalls
    /\ \E token1, token2 \in Buckets, fee \in Fees :
          LET res == instantiate_pool(token1, token2, fee)
          IN  /\ Commit("instantiate_pool", res)
              /\ fee_to_pool' = IF res.ok THEN fee ELSE fee_to_pool

AddLiquidity ==
    /\ Created
    /\ calls < MaxCalls
    /\ \E token1, token2 \in Buckets :
          Commit("add_liquidity", add_liquidity(vaults, total_supply, token1, token2))
    /\ UNCHANGED fee_to_pool

\* the amounts of tracking tokens a holder can present when the supply is s and the
\* last call minted `minted`: nothing, the smallest unit, a quarter, a half, all but
\* the smallest unit, all of the supply, and what was just minted
TrackingAmounts(s, minted) ==
    {0, 1, s \div 4, s \div 2, s - 1, s, minted} \cap (0 .. s)

\* the buckets offered to remove_liquidity: tracking tokens, or tokens of resource 1
TrackingBuckets(s, minted) ==
    {Bucket(a, x) : a \in {1, tracking_token_address}, x \in TrackingAmounts(s, minted)}

RemoveLiquidity ==
    /\ Created
    /\ calls < MaxCalls
    /\ \E tracking_tokens \in TrackingBuckets(total_supply, last.minted),
          keys \in addresses(vaults) :
          Commit("remove_liquidity",
                 remove_liquidity(vaults, total_supply, tracking_tokens, keys))
    /\ UNCHANGED fee_to_pool

Swap ==
    /\ Created
    /\ calls < MaxCalls
    /\ \E tokens \in Buckets :
          Commit("swap", swap(vaults, fee_to_pool, total_supply, tokens))
    /\ UNCHANGED fee_to_pool

SwapExactTokensForTokens ==
    /\ Created
    /\ calls < MaxCalls
    /\ \E tokens \in Buckets, min_amount_out \in Amounts :
          Commit("swap_exact_tokens_for_tokens",
                 swap_exact_tokens_for_tokens(vaults, fee_to_pool, total_supply,
                                              tokens, min_amount_out))
    /\ UNCHANGED fee_to_pool

SwapTokensForExactTokens ==
    /\ Created
    /\ calls < MaxCalls
    /\ \E tokens \in Buckets, output_amount \in OutputAmounts :
          Commit("swap_tokens_for_exact_tokens",
                 swap_tokens_for_exact_tokens(vaults, fee_to_pool, total_supply,
                                              tokens, output_amount))
    /\ UNCHANGED fee_to_pool

Next ==
    \/ InstantiatePool
    \/ AddLiquidity
    \/ RemoveLiquidity
    \/ Swap
    \/ SwapExactTokensForTokens
    \/ SwapTokensForExactTokens

Spec == Init /\ [][Next]_vars

---------------------------------------------------------------------------
(* The same pool with larger deposits: buckets of the two fungible tokens of  *)
(* up to MaxDeposit smallest units, token1 and token2 in the order of their   *)
(* addresses, and no cap on the reserves.                                     *)

DepositAmounts == 1 .. MaxDeposit

\* the buckets a caller of SpecLarge can pass
Deposits == {Bucket(a, x) : a \in {1, 2}, x \in DepositAmounts}

\* fee_to_pool values offered to instantiate_pool in SpecLarge
LargeFees == {0, dec(1)}

InstantiateLargePool ==
    /\ ~Created
    /\ calls < MaxCalls
    /\ \E x, y \in DepositAmounts, fee \in LargeFees :
          LET res == instantiate_pool(Bucket(1, x), Bucket(2, y), fee)
          IN  /\ Record("instantiate_pool", res)
              /\ fee_to_pool' = IF res.ok THEN fee ELSE fee_to_pool

AddLargeLiquidity ==
    /\ Created
    /\ calls < MaxCalls
    /\ \E x, y \in DepositAmounts :
          Record("add_liquidity",
                 add_liquidity(vaults, total_supply, Bucket(1, x), Bucket(2, y)))
    /\ UNCHANGED fee_to_pool

RemoveLargeLiquidity ==
    /\ Created
    /\ calls < MaxCalls
    /\ \E amount \in TrackingAmounts(total_supply, last.minted),
          keys \in addresses(vaults) :
          Record("remove_liquidity",
                 remove_liquidity(vaults, total_supply,
                                  Bucket(tracking_token_address, amount), keys))
    /\ UNCHANGED fee_to_pool

LargeSwap ==
    /\ Created
    /\ calls < MaxCalls
    /\ \E tokens \in Deposits :
          Record("swap", swap(vaults, fee_to_pool, total_supply, tokens))
    /\ UNCHANGED fee_to_pool

LargeSwapExactTokensForTokens ==
    /\ Created
    /\ calls < MaxCalls
    /\ \E tokens \in Deposits, min_amount_out \in Amounts :
          Record("swap_exact_tokens_for_tokens",
                 swap_exact_tokens_for_tokens(vaults, fee_to_pool, total_supply,
                                              tokens, min_amount_out))
    /\ UNCHANGED fee_to_pool

LargeSwapTokensForExactTokens ==
    /\ Created
    /\ calls < MaxCalls
    /\ \E tokens \in Deposits, output_amount \in DepositAmounts :
          Record("swap_tokens_for_exact_tokens",
                 swap_tokens_for_exact_tokens(vaults, fee_to_pool, total_supply,
                                              tokens, output_amount))
    /\ UNCHANGED fee_to_pool

NextLarge ==
    \/ InstantiateLargePool
    \/ AddLargeLiquidity
    \/ RemoveLargeLiquidity
    \/ LargeSwap
    \/ LargeSwapExactTokensForTokens
    \/ LargeSwapTokensForExactTokens

SpecLarge == Init /\ [][NextLarge]_vars

---------------------------------------------------------------------------
(* The pool after its whole tracking supply was redeemed: a pool created with *)
(* one smallest unit of each resource and a fee of 0 or 1, from which         *)
(* remove_liquidity of the 100 tracking tokens has taken everything (a state  *)
(* of Spec, see DrainedIsReachable).  calls counts the calls from there on.   *)

InitDrained ==
    /\ vaults = (1 :> 0) @@ (2 :> 0)
    /\ fee_to_pool \in LargeFees
    /\ total_supply = 0
    /\ calls = 0
    /\ last = [op |-> "remove_liquidity", ok |-> TRUE, out1 |-> 1, out2 |-> 1, minted |-> 0]

NextDrained ==
    \/ AddLiquidity
    \/ RemoveLiquidity
    \/ Swap
    \/ SwapExactTokensForTokens
    \/ SwapTokensForExactTokens

SpecDrained == InitDrained /\ [][NextDrained]_vars

---------------------------------------------------------------------------
(* Properties *)

\* the buckets of the pool's own two resources
PoolBuckets == {b \in Buckets : belongs_to_pool(vaults, b.address)}

\* the pool's two resources by ascending address, to name them in the properties
Lo(v) == CHOOSE a \in DOMAIN v : \A b \in DOMAIN v : a <= b
Hi(v) == CHOOSE a \in DOMAIN v : \A b \in DOMAIN v : a >= b

\* the exact product of the two reserves, in smallest units squared (k() truncates it)
Product(v) == v[Lo(v)] * v[Hi(v)]

\* the states InitDrained starts from, as Spec reaches them
DrainedIsReachable ==
    /\ vaults = (1 :> 0) @@ (2 :> 0)
    /\ fee_to_pool \in LargeFees
    /\ total_supply = 0
    /\ last = [op |-> "remove_liquidity", ok |-> TRUE, out1 |-> 1, out2 |-> 1, minted |-> 0]

\* C1: after any sequence of calls, committed or rolled back, neither vault of a
\* created pool holds a negative amount.
ReservesNonNegative ==
    Created => \A a \in DOMAIN vaults : vaults[a] >= 0

\* a removal of the whole supply has emptied both vaults, down to exactly zero
ReservesNonNegativeWitness ==
    /\ Created
    /\ last.op = "remove_liquidity" /\ last.ok /\ last.out1 > 0 /\ last.out2 > 0
    /\ \A a \in DOMAIN vaults : vaults[a] = 0

\* C2: every swap, and every swap_exact_tokens_for_tokens, that commits leaves the
\* product of the reserves, exact and as k() computes it, at least what it was.
SwapKeepsK ==
    Created =>
        \A tokens \in PoolBuckets :
            /\ LET res == swap(vaults, fee_to_pool, total_supply, tokens)
               IN  res.ok => /\ Product(res.vaults) >= Product(vaults)
                             /\ k(res.vaults) >= k(vaults)
            /\ \A min_amount_out \in Amounts :
                  LET res == swap_exact_tokens_for_tokens(vaults, fee_to_pool, total_supply,
                                                          tokens, min_amount_out)
                  IN  res.ok => /\ Product(res.vaults) >= Product(vaults)
                                /\ k(res.vaults) >= k(vaults)

\* a swap with a fee has paid out tokens and left a larger product than the pool
\* was created with could have had
SwapKeepsKWitness ==
    /\ Created
    /\ last.op = "swap" /\ last.ok /\ last.out1 > 0
    /\ fee_to_pool > 0 /\ fee_to_pool < dec(100)
    /\ \A a \in DOMAIN vaults : vaults[a] > 0

\* C3: every swap_tokens_for_exact_tokens that commits leaves the product of the
\* reserves, exact and as k() computes it, at least what it was.
ExactOutputKeepsK ==
    [][(last'.op = "swap_tokens_for_exact_tokens" /\ last'.ok) =>
            /\ Product(vaults') >= Product(vaults)
            /\ k(vaults') >= k(vaults)]_vars

\* C4 as claimed: every committed swap of a non-empty bucket on a pool with a fee
\* strictly raises the product of the reserves, in every reachable state (the
\* bucket was not empty if the vaults hold more in total than before less the output).
SwapWithFeeRaisesKAnywhere ==
    [][(/\ last'.op = "swap" /\ last'.ok
        /\ fee_to_pool > 0
        /\ vaults'[1] + vaults'[2] + last'.out1 > vaults[1] + vaults[2]) =>
            Product(vaults') > Product(vaults)]_vars

\* C4 as amended: on a pool with a fee whose two reserves are both positive, every
\* committed swap of a non-empty bucket strictly raises the exact product of the
\* reserves (and never lowers k()).
SwapWithFeeRaisesK ==
    (Created /\ fee_to_pool > 0 /\ \A a \in DOMAIN vaults : vaults[a] > 0) =>
        \A tokens \in PoolBuckets :
            LET res == swap(vaults, fee_to_pool, total_supply, tokens)
            IN  (res.ok /\ tokens.amount > 0) =>
                    /\ Product(res.vaults) > Product(vaults)
                    /\ k(res.vaults) >= k(vaults)

\* a swap on a pool with a fee between 0 and 100 has paid out tokens and both
\* reserves are still positive
SwapWithFeeRaisesKWitness ==
    /\ Created
    /\ last.op = "swap" /\ last.ok /\ last.out1 > 0
    /\ fee_to_pool = dec(1)
    /\ \A a \in DOMAIN vaults : vaults[a] > 0
    /\ \E tokens \in PoolBuckets :
          /\ tokens.amount > 0
          /\ swap(vaults, fee_to_pool, total_supply, tokens).out1 > 0

\* C5 as claimed: with fee_to_pool = 0 a committed swap leaves k() exactly as it
\* was: k() after the swap equals k() before it.
FreeSwapKeepsKExactly ==
    [][(last'.op = "swap" /\ last'.ok /\ fee_to_pool = 0) =>
            k(vaults') = k(vaults)]_vars

\* C5 as amended: with fee_to_pool = 0 a committed swap keeps the product of the
\* reserves up to the truncation of the output: neither k() nor the exact product
\* falls, and the exact product rises by less than (the input reserve after the
\* swap + ONE) smallest units squared.
FreeSwapKeepsKUpToTruncation ==
    (Created /\ fee_to_pool = 0) =>
        \A tokens \in PoolBuckets :
            LET res == swap(vaults, fee_to_pool, total_supply, tokens)
            IN  res.ok =>
                    /\ Product(res.vaults) >= Product(vaults)
                    /\ Product(res.vaults) - Product(vaults)
                          < res.vaults[tokens.address] + ONE
                    /\ k(res.vaults) >= k(vaults)

\* a swap on a pool without fee has paid out tokens
FreeSwapKeepsKWitness ==
    /\ Created
    /\ fee_to_pool = 0
    /\ last.op = "swap" /\ last.ok /\ last.out1 > 0
    /\ \A a \in DOMAIN vaults : vaults[a] > 0

\* C6: remove_liquidity of `amount` tracking tokens out of a supply s returns, of
\* each of the pool's two resources, reserve * (amount / s) in Decimal arithmetic,
\* takes exactly that out of each vault and the amount out of the supply, in
\* whichever order addresses() gives the two resources.
RemoveLiquidityProportional ==
    (Created /\ total_supply > 0) =>
        \A amount \in TrackingAmounts(total_supply, last.minted),
           keys \in addresses(vaults) :
            LET res   == remove_liquidity(vaults, total_supply,
                                          Bucket(tracking_token_address, amount), keys)
                share == (amount * ONE) \div total_supply
                owed1 == (vaults[keys[1]] * share) \div ONE
                owed2 == (vaults[keys[2]] * share) \div ONE
            IN  /\ res.ok
                /\ res.out1 = owed1
                /\ res.out2 = owed2
                /\ res.vaults[keys[1]] = vaults[keys[1]] - owed1
                /\ res.vaults[keys[2]] = vaults[keys[2]] - owed2
                /\ res.supply = total_supply - amount

\* a removal of part of the supply has returned tokens of both resources and left
\* tokens of both in the vaults
RemoveLiquidityProportionalWitness ==
    /\ Created
    /\ last.op = "remove_liquidity" /\ last.ok /\ last.out1 > 0 /\ last.out2 > 0
    /\ total_supply > 0
    /\ \A a \in DOMAIN vaults : vaults[a] > 0

\* C7: add_liquidity of x of the first and y of the second resource on a pool with
\* both reserves m, n positive and m * y # n * x, when it commits: if m / n < x / y
\* it consumes y in full and y * m / n of the first resource, otherwise x in full
\* and x * n / m of the second; exactly one of the two refunds is non-empty.
ExcessIsRefunded ==
    Created =>
        \A x, y \in DepositAmounts :
            LET m     == vaults[Lo(vaults)]
                n     == vaults[Hi(vaults)]
                res   == add_liquidity(vaults, total_supply,
                                       Bucket(Lo(vaults), x), Bucket(Hi(vaults), y))
                used1 == x - res.out1
                used2 == y - res.out2
            IN  (/\ m > 0 /\ n > 0
                 /\ (m * y) \div ONE # (n * x) \div ONE
                 /\ res.ok) =>
                    /\ IF (m * ONE) \div n < (x * ONE) \div y
                       THEN used2 = y /\ used1 = (((y * m) \div ONE) * ONE) \div n
                       ELSE used1 = x /\ used2 = (((x * n) \div ONE) * ONE) \div m
                    /\ (res.out1 > 0) # (res.out2 > 0)

\* C8: add_liquidity of non-empty buckets of the pool's two resources, when a
\* reserve is zero or m * dn = n * dm, commits, adds the whole of each bucket to its
\* vault and refunds nothing.
BootstrapConsumesAll ==
    Created =>
        \A token1, token2 \in PoolBuckets :
            LET b   == sort_buckets(token1, token2)
                dm  == b[1].amount
                dn  == b[2].amount
                m   == vaults[b[1].address]
                n   == vaults[b[2].address]
                res == add_liquidity(vaults, total_supply, token1, token2)
            IN  (/\ token1.address # token2.address
                 /\ dm > 0 /\ dn > 0
                 /\ (m = 0 \/ n = 0 \/ (m * dn) \div ONE = (n * dm) \div ONE)) =>
                    /\ res.ok
                    /\ res.out1 = 0 /\ res.out2 = 0
                    /\ res.vaults[b[1].address] = m + dm
                    /\ res.vaults[b[2].address] = n + dn

\* C9: when the tracking supply s is not zero, an add_liquidity that commits mints
\* amount1 * s / m in Decimal arithmetic, amount1 what it consumed of the first
\* bucket and m that resource's reserve before the deposit, and adds it to the
\* supply; so minted / s is amount1 / m up to the two truncations.
MintIsProportional ==
    (Created /\ total_supply > 0) =>
        \A token1, token2 \in PoolBuckets :
            LET b       == sort_buckets(token1, token2)
                m       == vaults[b[1].address]
                res     == add_liquidity(vaults, total_supply, token1, token2)
                amount1 == b[1].amount - res.out1
            IN  res.ok =>
                    /\ m > 0
                    /\ res.minted = (((amount1 * total_supply) \div ONE) * ONE) \div m
                    /\ res.supply = total_supply + res.minted
                    /\ res.minted * m <= amount1 * total_supply
                    /\ amount1 * total_supply < (res.minted + 1) * m + ONE

\* an add_liquidity on a pool with outstanding tracking tokens has minted more
MintIsProportionalWitness ==
    /\ Created
    /\ last.op = "add_liquidity" /\ last.ok
    /\ last.minted > 0
    /\ total_supply > last.minted
    /\ \A a \in DOMAIN vaults : vaults[a] > 0

\* the rounding error allowed on an amount taken as a share of a reserve r: one
\* smallest unit for each whole token of r (the truncated share) and two for the
\* truncated products
Slack(r) == 2 + r \div ONE

\* C10: add_liquidity followed at once by remove_liquidity of the tracking tokens it
\* minted returns, of each resource, what the add consumed, and leaves each reserve
\* what it was before the add, both up to the rounding error Slack.
RoundTripReturnsDeposit ==
    Created =>
        \A x, y \in DepositAmounts, keys \in addresses(vaults) :
            LET lo    == Lo(vaults)
                hi    == Hi(vaults)
                add   == add_liquidity(vaults, total_supply, Bucket(lo, x), Bucket(hi, y))
                rem   == remove_liquidity(add.vaults, add.supply,
                                          Bucket(tracking_token_address, add.minted), keys)
                used1 == x - add.out1
                used2 == y - add.out2
                back1 == IF keys[1] = lo THEN rem.out1 ELSE rem.out2
                back2 == IF keys[1] = lo THEN rem.out2 ELSE rem.out1
            IN  add.ok =>
                    /\ rem.ok
                    /\ Abs(back1 - used1) <= Slack(add.vaults[lo])
                    /\ Abs(back2 - used2) <= Slack(add.vaults[hi])
                    /\ Abs(rem.vaults[lo] - vaults[lo]) <= Slack(add.vaults[lo])
                    /\ Abs(rem.vaults[hi] - vaults[hi]) <= Slack(add.vaults[hi])

\* C11: when the swap of the bucket would pay less than min_amount_out,
\* swap_exact_tokens_for_tokens panics and vaults and tracking supply are what they
\* were; a call that commits never pays less than min_amount_out.
SlippageIsRejected ==
    Created =>
        \A tokens \in PoolBuckets, min_amount_out \in Amounts :
            LET plain == swap(vaults, fee_to_pool, total_supply, tokens)
                res   == swap_exact_tokens_for_tokens(vaults, fee_to_pool, total_supply,
                                                      tokens, min_amount_out)
            IN  /\ (plain.ok /\ plain.out1 < min_amount_out) =>
                      /\ ~res.ok
                      /\ res.vaults = vaults
                      /\ res.supply = total_supply
                      /\ res.out1 = 0
                /\ res.ok => res.out1 >= min_amount_out

\* a swap_exact_tokens_for_tokens has just panicked on a pool where a swap pays
\* tokens, but fewer than a min_amount_out on offer
SlippageIsRejectedWitness ==
    /\ Created
    /\ last.op = "swap_exact_tokens_for_tokens" /\ ~last.ok
    /\ \E tokens \in PoolBuckets, min_amount_out \in Amounts :
          LET plain == swap(vaults, fee_to_pool, total_supply, tokens)
          IN  plain.ok /\ plain.out1 > 0 /\ plain.out1 < min_amount_out

\* C12: swap_tokens_for_exact_tokens panics when the bucket holds less than
\* input_required = calculate_input_amount(other resource, output_amount); when it
\* holds at least that, for an output_amount from 0 up to less than the output
\* reserve, the call commits; and a call that commits adds exactly input_required
\* to the input vault, takes exactly output_amount from the other, returns
\* output_amount and leaves the bucket's amount less input_required in the bucket.
ExactOutputSwapsExactly ==
    Created =>
        \A tokens \in PoolBuckets, output_amount \in OutputAmounts :
            LET other == other_resource_address(vaults, tokens.address)
                input_required == calculate_input_amount(vaults, fee_to_pool,
                                                         other, output_amount)
                res == swap_tokens_for_exact_tokens(vaults, fee_to_pool, total_supply,
                                                    tokens, output_amount)
            IN  /\ (input_required.ok /\ tokens.amount < input_required.val) =>
                      ~res.ok /\ res.vaults = vaults
                /\ (/\ input_required.ok /\ tokens.amount >= input_required.val
                    /\ output_amount >= 0 /\ output_amount < vaults[other]) => res.ok
                /\ res.ok =>
                      /\ input_required.ok
                      /\ res.vaults[tokens.address]
                            = vaults[tokens.address] + input_required.val
                      /\ res.vaults[other] = vaults[other] - output_amount
                      /\ res.out1 = output_amount
                      /\ res.out2 = tokens.amount - input_required.val
                      /\ res.supply = total_supply

\* a swap_tokens_for_exact_tokens has paid tokens out and left tokens in the
\* bucket, on a pool where an exact output still costs a positive input
ExactOutputSwapsExactlyWitness ==
    /\ Created
    /\ last.op = "swap_tokens_for_exact_tokens" /\ last.ok
    /\ last.out1 > 0 /\ last.out2 > 0
    /\ \E tokens \in PoolBuckets, output_amount \in OutputAmounts :
          LET other == other_resource_address(vaults, tokens.address)
              input_required == calculate_input_amount(vaults, fee_to_pool,
                                                       other, output_amount)
          IN  /\ input_required.ok /\ input_required.val > 0
              /\ swap_tokens_for_exact_tokens(vaults, fee_to_pool, total_supply,
                                              tokens, output_amount).ok

\* C13: calculate_input_amount panics, returning no value, for every output_amount
\* greater than or equal to the reserve of the output resource.
InputForRejectsWholeReserve ==
    Created =>
        \A address \in DOMAIN vaults, output_amount \in OutputAmounts :
            output_amount >= vaults[address] =>
                ~calculate_input_amount(vaults, fee_to_pool, address, output_amount).ok

\* C14: swap_tokens_for_exact_tokens panics, and vaults and tracking supply are what
\* they were, whenever output_amount is greater than or equal to the reserve of the
\* output resource, whatever the bucket holds.
ExactOutputRejectsWholeReserve ==
    Created =>
        \A tokens \in PoolBuckets, output_amount \in OutputAmounts :
            LET other == other_resource_address(vaults, tokens.address)
                res   == swap_tokens_for_exact_tokens(vaults, fee_to_pool, total_supply,
                                                      tokens, output_amount)
            IN  output_amount >= vaults[other] =>
                    /\ ~res.ok
                    /\ res.vaults = vaults
                    /\ res.supply = total_supply
                    /\ res.out1 = 0 /\ res.out2 = 0

\* a swap_tokens_for_exact_tokens has just panicked on a pool where, for an
\* output_amount above a positive reserve, calculate_input_amount returns an amount
\* that a bucket on offer covers
ExactOutputRejectsWholeReserveWitness ==
    /\ Created
    /\ last.op = "swap_tokens_for_exact_tokens" /\ ~last.ok
    /\ \E tokens \in PoolBuckets, output_amount \in OutputAmounts :
          LET other == other_resource_address(vaults, tokens.address)
              input_required == calculate_input_amount(vaults, fee_to_pool,
                                                       other, output_amount)
          IN  /\ vaults[other] > 0
              /\ output_amount > vaults[other]
              /\ input_required.ok
              /\ input_required.val = 0
              /\ tokens.amount > 0

\* C15: instantiate_pool (called where there is no pool yet) panics, creating no
\* pool and minting nothing, whenever the
\* two buckets are of the same resource, a resource is not fungible, a bucket is
\* empty or the fee is outside [0, 100]; so every pool has a fee in [0, 100] and
\* vaults of two distinct resources, and after a failed instantiate_pool there is
\* no pool and no tracking token.
CreateValidates ==
    /\ ~Created => \A token1, token2 \in Buckets, fee \in Fees :
          (\/ token1.address = token2.address
           \/ ~is_fungible(token1.address) \/ ~is_fungible(token2.address)
           \/ token1.amount = 0 \/ token2.amount = 0
           \/ fee < 0 \/ fee > dec(100)) =>
              LET res == instantiate_pool(token1, token2, fee)
              IN  ~res.ok /\ res.vaults = <<>> /\ res.supply = 0 /\ res.minted = 0
    /\ Created =>
          /\ fee_to_pool >= 0 /\ fee_to_pool <= dec(100)
          /\ Cardinality(DOMAIN vaults) = 2
          /\ \A a \in DOMAIN vaults : is_fungible(a)
    /\ (last.op = "instantiate_pool" /\ ~last.ok) =>
          ~Created /\ total_supply = 0 /\ last.minted = 0

\* an instantiate_pool has just panicked: there is no pool
CreateValidatesWitness ==
    /\ last.op = "instantiate_pool" /\ ~last.ok
    /\ ~Created
    /\ calls = 0

\* C16: an instantiate_pool that commits puts the whole of each bucket in that
\* resource's vault (no fee is taken) and mints exactly 100 tracking tokens,
\* whatever the buckets hold; right after it the tracking supply is 100.
CreateMintsHundred ==
    /\ ~Created => \A token1, token2 \in Buckets, fee \in Fees :
          LET res == instantiate_pool(token1, token2, fee)
          IN  res.ok =>
                  /\ DOMAIN res.vaults = {token1.address, token2.address}
                  /\ res.vaults[token1.address] = token1.amount
                  /\ res.vaults[token2.address] = token2.amount
                  /\ res.minted = 100 * ONE
                  /\ res.supply = 100 * ONE
                  /\ res.out1 = 0 /\ res.out2 = 0
    /\ (last.op = "instantiate_pool" /\ last.ok) =>
          /\ Created
          /\ total_supply = 100 * ONE
          /\ last.minted = 100 * ONE

\* a pool has just been created with different amounts of its two resources
CreateMintsHundredWitness ==
    /\ last.op = "instantiate_pool" /\ last.ok
    /\ Created
    /\ vaults[Lo(vaults)] # vaults[Hi(vaults)]
    /\ fee_to_pool > 0

\* C17: once the tracking supply is back to 0, whatever was called in between, the
\* pool is still there and add_liquidity of any non-empty buckets of the pool's two
\* resources, one of each, commits, consumes both buckets in full and mints
\* exactly 100 tracking tokens.
RefillMintsHundred ==
    (Created /\ total_supply = 0) =>
        \A token1, token2 \in PoolBuckets :
            (/\ token1.address # token2.address
             /\ token1.amount > 0 /\ token2.amount > 0) =>
                LET res == add_liquidity(vaults, total_supply, token1, token2)
                IN  /\ res.ok
                    /\ res.out1 = 0 /\ res.out2 = 0
                    /\ res.minted = 100 * ONE
                    /\ res.supply = 100 * ONE

\* the buckets of resources that are not the pool's: the third resource and the
\* pool's own tracking token
ForeignBuckets ==
    {Bucket(a, x) : a \in (Resources \cup {tracking_token_address}) \ DOMAIN vaults,
                    x \in Amounts}

\* the call panicked and changed nothing
Rejected(res) ==
    /\ ~res.ok
    /\ res.vaults = vaults
    /\ res.supply = total_supply
    /\ res.out1 = 0 /\ res.out2 = 0 /\ res.minted = 0

\* C18: a call given a resource it does not accept panics and leaves vaults and
\* tracking supply as they were: add_liquidity with either bucket of a resource that
\* is not the pool's, swap, swap_exact_tokens_for_tokens, swap_tokens_for_exact_tokens,
\* calculate_output_amount, calculate_input_amount and other_resource_address with
\* such a resource, remove_liquidity with a bucket that is not of the tracking token.
ForeignTokenIsRejected ==
    Created =>
        /\ \A foreign \in ForeignBuckets :
              /\ \A tokens \in Buckets :
                    /\ Rejected(add_liquidity(vaults, total_supply, foreign, tokens))
                    /\ Rejected(add_liquidity(vaults, total_supply, tokens, foreign))
              /\ Rejected(swap(vaults, fee_to_pool, total_supply, foreign))
              /\ \A min_amount_out \in Amounts :
                    Rejected(swap_exact_tokens_for_tokens(vaults, fee_to_pool, total_supply,
                                                          foreign, min_amount_out))
              /\ \A output_amount \in OutputAmounts :
                    Rejected(swap_tokens_for_exact_tokens(vaults, fee_to_pool, total_supply,
                                                          foreign, output_amount))
              /\ ~calculate_output_amount(vaults, fee_to_pool,
                                          foreign.address, foreign.amount).ok
              /\ ~calculate_input_amount(vaults, fee_to_pool,
                                         foreign.address, foreign.amount).ok
              /\ ~other_resource_address_call(vaults, foreign.address).ok
        /\ \A tokens \in Buckets, amount \in TrackingAmounts(total_supply, last.minted),
              keys \in addresses(vaults) :
              /\ Rejected(remove_liquidity(vaults, total_supply, tokens, keys))
              /\ Rejected(remove_liquidity(vaults, total_supply,
                                           Bucket(tokens.address, amount), keys))

\* a swap has just panicked on a pool with both reserves positive and a fee below
\* 100, where a swap of the pool's own resources cannot fail
ForeignTokenIsRejectedWitness ==
    /\ Created
    /\ last.op = "swap" /\ ~last.ok
    /\ fee_to_pool < dec(100)
    /\ total_supply > 0
    /\ \A a \in DOMAIN vaults : vaults[a] > 0
    /\ \A tokens \in PoolBuckets : swap(vaults, fee_to_pool, total_supply, tokens).ok

\* C19: in every reachable state of the pool, add_liquidity of non-empty buckets of
\* the pool's two resources commits.
AddLiquidityAlwaysCommits ==
    Created =>
        \A x, y \in DepositAmounts :
            add_liquidity(vaults, total_supply,
                          Bucket(Lo(vaults), x), Bucket(Hi(vaults), y)).ok

\* C20: in every reachable state of the pool, an emptied pool included, swap of a
\* bucket of one of the pool's resources, of any amount from 0 up, commits, and
\* pays out no more than the other vault holds.
SwapAlwaysCommits ==
    Created =>
        \A tokens \in PoolBuckets :
            LET res == swap(vaults, fee_to_pool, total_supply, tokens)
            IN  /\ res.ok
                /\ res.out1 <= vaults[other_resource_address(vaults, tokens.address)]

\* C21: in every reachable state of the pool, remove_liquidity of a bucket of the
\* tracking token, of any amount from 0 up to the supply, commits, and takes from
\* neither vault more than it holds.
RemoveLiquidityAlwaysCommits ==
    Created =>
        \A amount \in TrackingAmounts(total_supply, last.minted),
           keys \in addresses(vaults) :
            LET res == remove_liquidity(vaults, total_supply,
                                        Bucket(tracking_token_address, amount), keys)
            IN  /\ res.ok
                /\ res.out1 <= vaults[keys[1]]
                /\ res.out2 <= vaults[keys[2]]

\* C22: in every state of a created pool, if the tracking supply is 0 then both
\* vaults are empty.
NoReservesWithoutSupply ==
    (Created /\ total_supply = 0) => \A a \in DOMAIN vaults : vaults[a] = 0

---------------------------------------------------------------------------
(* The pricing methods on a freshly created pool: instantiate_pool with 1 to  *)
(* MaxDeposit smallest units of resources 1 and 2 and a fee of 0, 25, 50, 75  *)
(* or 100, then calls of calculate_output_amount and calculate_input_amount,  *)
(* which read the pool and change nothing.                                    *)

PricingFees == {0, dec(25), dec(50), dec(75), dec(100)}

\* the amounts passed to the pricing methods
PricingAmounts == 0 .. MaxDeposit

\* what is remembered of a pricing call: the method, whether it returned, the amount
Priced(op, res) ==
    [op |-> op, ok |-> res.ok, out1 |-> res.val, out2 |-> 0, minted |-> 0]

InitPricing ==
    \E token1 \in {Bucket(1, x) : x \in DepositAmounts},
       token2 \in {Bucket(2, x) : x \in DepositAmounts},
       fee \in PricingFees :
          LET res == instantiate_pool(token1, token2, fee)
          IN  /\ res.ok
              /\ vaults = res.vaults
              /\ fee_to_pool = fee
              /\ total_supply = res.supply
              /\ calls = 0
              /\ last = Call("instantiate_pool", res)

CalculateOutputAmount ==
    /\ calls < MaxCalls
    /\ \E input_resource_address \in Resources, input_amount \in PricingAmounts :
          last' = Priced("calculate_output_amount",
                         calculate_output_amount(vaults, fee_to_pool,
                                                 input_resource_address, input_amount))
    /\ calls' = calls + 1
    /\ UNCHANGED <<vaults, fee_to_pool, total_supply>>

\* the output asked for is one of PricingAmounts or what the last call returned
CalculateInputAmount ==
    /\ calls < MaxCalls
    /\ \E output_resource_address \in Resources,
          output_amount \in PricingAmounts \cup {last.out1} :
          last' = Priced("calculate_input_amount",
                         calculate_input_amount(vaults, fee_to_pool,
                                                output_resource_address, output_amount))
    /\ calls' = calls + 1
    /\ UNCHANGED <<vaults, fee_to_pool, total_supply>>

NextPricing ==
    \/ CalculateOutputAmount
    \/ CalculateInputAmount

SpecPricing == InitPricing /\ [][NextPricing]_vars

\* C23: for the reserves of the pool and any input, a higher fee never gives a
\* larger output: for fees f1 <= f2 in [0, 100], calculate_output_amount with f2
\* returns at most what it returns with f1.
HigherFeeNeverPaysMore ==
    \A a \in DOMAIN vaults, input_amount \in PricingAmounts, f1, f2 \in PricingFees :
        LET o1 == calculate_output_amount(vaults, f1, a, input_amount)
            o2 == calculate_output_amount(vaults, f2, a, input_amount)
        IN  (f1 <= f2 /\ o1.ok /\ o2.ok) => o2.val <= o1.val

\* C24: on a pool with positive reserves and a fee below 100, for any input a,
\* calculate_input_amount of the other token for calculate_output_amount(token, a)
\* returns, and returns a to within one whole token.
RoundTripReturnsInput ==
    (\A a \in DOMAIN vaults : vaults[a] > 0) /\ fee_to_pool < dec(100) =>
        \A a \in DOMAIN vaults, input_amount \in PricingAmounts :
            LET o == calculate_output_amount(vaults, fee_to_pool, a, input_amount)
                i == calculate_input_amount(vaults, fee_to_pool,
                                            other_resource_address(vaults, a), o.val)
            IN  o.ok /\ i.ok /\ Abs(i.val - input_amount) <= ONE

\* C25: in every state of a created pool, if the tracking supply is positive then
\* both vaults hold a strictly positive amount.
SupplyImpliesReserves ==
    (Created /\ total_supply > 0) => \A a \in DOMAIN vaults : vaults[a] > 0

\* C26: on a pool with positive reserves, an add_liquidity of two non-empty buckets,
\* one of each resource of the pool, that mints a positive amount of tracking tokens
\* leaves both vaults strictly larger than before.
MintNeedsBothDeposits ==
    (Created /\ \A a \in DOMAIN vaults : vaults[a] > 0) =>
        \A token1, token2 \in PoolBuckets :
            LET res == add_liquidity(vaults, total_supply, token1, token2)
            IN  (/\ token1.address # token2.address
                 /\ token1.amount > 0 /\ token2.amount > 0
                 /\ res.ok /\ res.minted > 0)
                    => \A a \in DOMAIN vaults : res.vaults[a] > vaults[a]

\* C27: an add_liquidity that commits on a pool with a positive tracking supply,
\* with one bucket of each resource of the pool, does not dilute: for each resource,
\* reserve after * supply before >= reserve before * supply after.
AddLiquidityNeverDilutes ==
    (Created /\ total_supply > 0) =>
        \A token1, token2 \in PoolBuckets :
            LET res == add_liquidity(vaults, total_supply, token1, token2)
            IN  (token1.address # token2.address /\ res.ok)
                    => \A a \in DOMAIN vaults :
                           res.vaults[a] * total_supply >= vaults[a] * res.supply

====
